---- MODULE Spec2Model ----
(***************************************************************************)
(* A model of NoGo, a .gitignore parser: the pattern compiler (Compile,    *)
(* CompileAll), the rule store (NoGo.groups with AddRules / AddFile /      *)
(* AddFromFS), the resolver (NoGo.match behind Match, MatchBecause and     *)
(* MatchWithoutParents), Result.Resolve and the walk hook NoGo.WalkFN.     *)
(*                                                                         *)
(* Go strings are modelled as sequences of one-character strings, so that  *)
(* strings.HasPrefix, strings.Split, strings.ReplaceAll ... work on the    *)
(* characters as they do in the code.  "abc" is written <<"a","b","c">>.   *)
(***************************************************************************)
EXTENDS Integers, Sequences, FiniteSets, TLC

(***************************************************************************)
(* Package strings                                                         *)
(***************************************************************************)

\* strings.HasPrefix(s, prefix)
HasPrefix(s, prefix) ==
    /\ Len(prefix) <= Len(s)
    /\ SubSeq(s, 1, Len(prefix)) = prefix

\* strings.HasSuffix(s, suffix)
HasSuffix(s, suffix) ==
    /\ Len(suffix) <= Len(s)
    /\ SubSeq(s, Len(s) - Len(suffix) + 1, Len(s)) = suffix

\* strings.TrimPrefix(s, prefix)
TrimPrefix(s, prefix) ==
    IF HasPrefix(s, prefix) THEN SubSeq(s, Len(prefix) + 1, Len(s)) ELSE s

\* strings.TrimSuffix(s, suffix)
TrimSuffix(s, suffix) ==
    IF HasSuffix(s, suffix) THEN SubSeq(s, 1, Len(s) - Len(suffix)) ELSE s

\* strings.TrimRight(s, cutset) for a cutset of one character
RECURSIVE TrimRight(_, _)
TrimRight(s, c) ==
    IF Len(s) > 0 /\ s[Len(s)] = c
    THEN TrimRight(SubSeq(s, 1, Len(s) - 1), c)
    ELSE s

\* strings.Count(s, substr): the non-overlapping occurrences of substr
RECURSIVE Count(_, _)
Count(s, substr) ==
    IF Len(s) < Len(substr) THEN 0
    ELSE IF HasPrefix(s, substr)
         THEN 1 + Count(SubSeq(s, Len(substr) + 1, Len(s)), substr)
         ELSE Count(Tail(s), substr)

\* strings.ReplaceAll(s, old, new), old not empty: left to right, non-overlapping
RECURSIVE ReplaceAll(_, _, _)
ReplaceAll(s, old, new) ==
    IF Len(s) < Len(old) THEN s
    ELSE IF HasPrefix(s, old)
         THEN new \o ReplaceAll(SubSeq(s, Len(old) + 1, Len(s)), old, new)
         ELSE <<Head(s)>> \o ReplaceAll(Tail(s), old, new)

\* strings.Split(s, sep) for a separator of one character: the pieces
\* between the separators, empty pieces included
RECURSIVE SplitFrom(_, _, _)
SplitFrom(s, sep, cur) ==
    IF s = <<>> THEN <<cur>>
    ELSE IF Head(s) = sep
         THEN <<cur>> \o SplitFrom(Tail(s), sep, <<>>)
         ELSE SplitFrom(Tail(s), sep, Append(cur, Head(s)))

Split(s, sep) == SplitFrom(s, sep, <<>>)

(***************************************************************************)
(* Characters.  The code's placeholder bytes \000 .. \007 are characters   *)
(* of their own, written "<000>" .. "<007>"; "<CR>" and "<LF>" are \r and  *)
(* \n.  Ord gives the byte value, which orders names in a directory        *)
(* listing and decides the ranges of a character class.                    *)
(***************************************************************************)
doubleStar        == "<000>"
singleStar        == "<001>"
questionMark      == "<002>"
negatedMatchStart == "<003>"
matchStart        == "<004>"
matchEnd          == "<005>"
escapedMatchStart == "<006>"
escapedMatchEnd   == "<007>"
CR                == "<CR>"
LF                == "<LF>"


\* The printable ASCII characters, from byte 32 (space) to byte 126 (~);
\* byte 96, the backquote, is written "<BQ>"
AsciiPrintable ==
    << " ", "!", "\"", "#", "$", "%", "&", "'", "(", ")", "*", "+",
       ",", "-", ".", "/", "0", "1", "2", "3", "4", "5", "6", "7",
       "8", "9", ":", ";", "<", "=", ">", "?", "@", "A", "B", "C",
       "D", "E", "F", "G", "H", "I", "J", "K", "L", "M", "N", "O",
       "P", "Q", "R", "S", "T", "U", "V", "W", "X", "Y", "Z", "[",
       "\\", "]", "^", "_", "<BQ>", "a", "b", "c", "d", "e", "f", "g",
       "h", "i", "j", "k", "l", "m", "n", "o", "p", "q", "r", "s",
       "t", "u", "v", "w", "x", "y", "z", "{", "|", "}", "~" >>

Placeholders ==
    << doubleStar, singleStar, questionMark, negatedMatchStart,
       matchStart, matchEnd, escapedMatchStart, escapedMatchEnd >>

\* The characters of the bytes 0 .. 126 in order; the control bytes that
\* have no name here are left out as ""
ByteChars ==
    Placeholders \o <<"", "", LF, "", "", CR>> \o [n \in 1..18 |-> ""]
                 \o AsciiPrintable

\* The byte value of a character
Ord(c) == (CHOOSE n \in DOMAIN ByteChars : ByteChars[n] = c) - 1

\* s < t for Go strings (byte-wise), the order of a sorted directory listing
RECURSIVE StrLess(_, _)
StrLess(s, t) ==
    IF t = <<>> THEN FALSE
    ELSE IF s = <<>> THEN TRUE
    ELSE IF Head(s) = Head(t) THEN StrLess(Tail(s), Tail(t))
    ELSE Ord(Head(s)) < Ord(Head(t))

(***************************************************************************)
(* Package regexp, for the expressions Compile builds: literals, escaped   *)
(* punctuation, ".", "^", "$", character classes, groups and the           *)
(* repetitions "*", "?" and "+".  A compiled expression is the sequence of *)
(* its items.  Compile quotes the pattern, so a backslash in an expression *)
(* stands before punctuation only; before a letter or digit it is left     *)
(* as an error.                                                            *)
(***************************************************************************)

\* The bytes regexp.QuoteMeta escapes
SpecialBytes ==
    {"\\", ".", "+", "*", "?", "(", ")", "|", "[", "]", "{", "}", "^", "$"}

\* regexp.QuoteMeta(s)
RECURSIVE QuoteMeta(_)
QuoteMeta(s) ==
    IF s = <<>> THEN <<>>
    ELSE (IF Head(s) \in SpecialBytes THEN <<"\\", Head(s)>> ELSE <<Head(s)>>)
         \o QuoteMeta(Tail(s))

\* One item of a compiled expression.  k: "lit" (the character c), "any",
\* "class" (the ranges, negated or not), "group" (the items sub), "bol", "eol";
\* q: "1" (once), "*", "?" or "+".
Item(k, c, neg, ranges, sub) ==
    [k |-> k, q |-> "1", c |-> c, neg |-> neg, ranges |-> ranges, sub |-> sub]

ParseFail == [ok |-> FALSE, item |-> Item("lit", "", FALSE, <<>>, <<>>),
              items |-> <<>>, next |-> 0]

ParsedItem(it, next) == [ok |-> TRUE, item |-> it, items |-> <<>>, next |-> next]

IsWordByte(b) ==
    \/ (b >= 48 /\ b <= 57)
    \/ (b >= 65 /\ b <= 90)
    \/ (b >= 97 /\ b <= 122)

IsWordChar(c) == IsWordByte(Ord(c))

Quantifiers == {"*", "?", "+"}

\* One member character of a class at position j: a backslash makes the
\* next character the member
ClassChar(s, j) ==
    IF j > Len(s) THEN [ok |-> FALSE, c |-> "", next |-> 0]
    ELSE IF s[j] # "\\" THEN [ok |-> TRUE, c |-> s[j], next |-> j + 1]
    ELSE IF j + 1 <= Len(s) /\ ~IsWordChar(s[j + 1])
         THEN [ok |-> TRUE, c |-> s[j + 1], next |-> j + 2]
         ELSE [ok |-> FALSE, c |-> "", next |-> 0]

\* The upper end of the range that starts with the member lo: the member
\* after a "-" that does not close the class, else lo itself
ClassHigh(s, lo) ==
    IF lo.next + 1 <= Len(s) /\ s[lo.next] = "-" /\ s[lo.next + 1] # "]"
    THEN ClassChar(s, lo.next + 1)
    ELSE lo

RECURSIVE ClassItems(_, _, _, _)

\* The range lo-hi joins the class unless it is reversed
ClassAdd(s, lo, hi, acc) ==
    IF ~lo.ok \/ ~hi.ok THEN ParseFail
    ELSE IF Ord(hi.c) < Ord(lo.c) THEN ParseFail
    ELSE ClassItems(s, hi.next, FALSE, Append(acc, <<Ord(lo.c), Ord(hi.c)>>))

ClassFrom(s, lo, acc) ==
    IF ~lo.ok THEN ParseFail ELSE ClassAdd(s, lo, ClassHigh(s, lo), acc)

\* The members of a character class from position j on, up to its "]";
\* a "]" that comes first is a member
ClassItems(s, j, first, acc) ==
    IF j > Len(s) THEN ParseFail
    ELSE IF s[j] = "]" /\ ~first THEN [ok |-> TRUE, ranges |-> acc, next |-> j + 1]
    ELSE ClassFrom(s, ClassChar(s, j), acc)

ClassResult(neg, r) ==
    IF r.ok THEN ParsedItem(Item("class", "", neg, r.ranges, <<>>), r.next)
    ELSE ParseFail

\* A character class starting at the "[" at position i
ParseClass(s, i) ==
    IF i + 1 <= Len(s) /\ s[i + 1] = "^"
    THEN ClassResult(TRUE, ClassItems(s, i + 2, TRUE, <<>>))
    ELSE ClassResult(FALSE, ClassItems(s, i + 1, TRUE, <<>>))

RECURSIVE ParseSeq(_, _, _)

\* The group whose items r were parsed after a "("
GroupResult(s, r) ==
    IF r.ok /\ r.next <= Len(s) /\ s[r.next] = ")"
    THEN ParsedItem(Item("group", "", FALSE, <<>>, r.items), r.next + 1)
    ELSE ParseFail

\* One atom starting at position i <= Len(s)
ParseAtom(s, i) ==
    CASE s[i] = "(" -> GroupResult(s, ParseSeq(s, i + 1, <<>>))
      [] s[i] = "[" -> ParseClass(s, i)
      [] s[i] = "\\" ->
           IF i + 1 <= Len(s) /\ ~IsWordChar(s[i + 1])
           THEN ParsedItem(Item("lit", s[i + 1], FALSE, <<>>, <<>>), i + 2)
           ELSE ParseFail
      [] s[i] = "." -> ParsedItem(Item("any", "", FALSE, <<>>, <<>>), i + 1)
      [] s[i] = "^" -> ParsedItem(Item("bol", "", FALSE, <<>>, <<>>), i + 1)
      [] s[i] = "$" -> ParsedItem(Item("eol", "", FALSE, <<>>, <<>>), i + 1)
      [] s[i] \in {"*", "+", "?", ")", "|"} -> ParseFail
      [] OTHER -> ParsedItem(Item("lit", s[i], FALSE, <<>>, <<>>), i + 1)

\* The repetition that follows an atom ending before position n, with an
\* optional "?" (non-greedy) after it
QuantAt(s, n) ==
    IF n > Len(s) \/ s[n] \notin Quantifiers THEN [q |-> "1", next |-> n]
    ELSE IF n + 1 <= Len(s) /\ s[n + 1] = "?" THEN [q |-> s[n], next |-> n + 2]
    ELSE [q |-> s[n], next |-> n + 1]

\* The atom a with its repetition q joins the items; a repetition of a
\* repetition is an error
ParseRepeat(s, a, q, acc) ==
    IF q.q # "1" /\ q.next <= Len(s) /\ s[q.next] \in Quantifiers
    THEN [ok |-> FALSE, items |-> <<>>, next |-> 0]
    ELSE ParseSeq(s, q.next, Append(acc, [a.item EXCEPT !.q = q.q]))

ParseItem(s, a, acc) ==
    IF ~a.ok THEN [ok |-> FALSE, items |-> <<>>, next |-> 0]
    ELSE ParseRepeat(s, a, QuantAt(s, a.next), acc)

\* The items from position i up to the end of s or to a ")"
ParseSeq(s, i, acc) ==
    IF i > Len(s) \/ s[i] = ")" THEN [ok |-> TRUE, items |-> acc, next |-> i]
    ELSE ParseItem(s, ParseAtom(s, i), acc)

ParseResult(expr, r) ==
    IF r.ok /\ r.next = Len(expr) + 1
    THEN [ok |-> TRUE, prog |-> r.items]
    ELSE [ok |-> FALSE, prog |-> <<>>]

\* regexp.Compile(expr): [ok, prog]; ok = FALSE is the error return
RegexpCompile(expr) == ParseResult(expr, ParseSeq(expr, 1, <<>>))

InRanges(ranges, b) ==
    \E n \in 1..Len(ranges) : ranges[n][1] <= b /\ b <= ranges[n][2]

RECURSIVE SeqEnds(_, _, _)
RECURSIVE StarEnds(_, _, _)

\* The positions (characters consumed) after one match of the item's atom
\* that starts at position pos of s
AtomEnds(it, pos, s) ==
    CASE it.k = "lit"   -> IF pos < Len(s) /\ s[pos + 1] = it.c THEN {pos + 1} ELSE {}
      [] it.k = "any"   -> IF pos < Len(s) /\ s[pos + 1] # LF THEN {pos + 1} ELSE {}
      [] it.k = "class" ->
           IF pos < Len(s) /\ (InRanges(it.ranges, Ord(s[pos + 1])) # it.neg)
           THEN {pos + 1} ELSE {}
      [] it.k = "group" -> SeqEnds(it.sub, {pos}, s)
      [] it.k = "bol"   -> IF pos = 0 THEN {pos} ELSE {}
      [] it.k = "eol"   -> IF pos = Len(s) THEN {pos} ELSE {}

\* The positions after one match of the atom from a position of P
OnceEnds(it, P, s) == UNION {AtomEnds(it, p, s) : p \in P}

StarGrow(it, P, N, s) == IF N = P THEN P ELSE StarEnds(it, N, s)

\* The positions after zero or more matches of the atom from a position of P
StarEnds(it, P, s) == StarGrow(it, P, P \cup OnceEnds(it, P, s), s)

\* The positions after the item, repeated as it says, from a position of P
ItemEnds(it, P, s) ==
    CASE it.q = "1" -> OnceEnds(it, P, s)
      [] it.q = "?" -> P \cup OnceEnds(it, P, s)
      [] it.q = "*" -> StarEnds(it, P, s)
      [] it.q = "+" -> StarEnds(it, OnceEnds(it, P, s), s)

\* The positions after the items, matched in order from a position of P
SeqEnds(items, P, s) ==
    IF items = <<>> \/ P = {} THEN P
    ELSE SeqEnds(Tail(items), ItemEnds(Head(items), P, s), s)

\* (*Regexp).MatchString(s): the expression matches somewhere in s
MatchString(prog, s) ==
    \E start \in 0..Len(s) : SeqEnds(prog, {start}, s) # {}

(***************************************************************************)
(* Rules and the pattern compiler.  Compile works on its three variables   *)
(* prefix, pattern and rule; they are the fields of the record c that the  *)
(* steps below hand on, in the order of the code.                          *)
(***************************************************************************)

\* Rule{}: the zero value
ZeroRule ==
    [Regexp |-> <<>>, Prefix |-> <<>>, Pattern |-> <<>>,
     Negate |-> FALSE, OnlyFolder |-> FALSE]

\* What Compile returns: skip, rule and err; panic = TRUE stands for the
\* run-time panic of indexing an empty string, which returns nothing
CompileSkip  == [skip |-> TRUE,  rule |-> ZeroRule, err |-> FALSE, panic |-> FALSE]
CompileError == [skip |-> FALSE, rule |-> ZeroRule, err |-> TRUE,  panic |-> FALSE]
CompilePanic == [skip |-> FALSE, rule |-> ZeroRule, err |-> FALSE, panic |-> TRUE]

\* A variant of UnescapeHash that leaves the pattern as it is (to test C22
\* against)
UnescapeHashNever(pattern) == pattern

\* Unescape \# to #
UnescapeHash(pattern) ==
    IF HasPrefix(pattern, <<"\\", "#">>) THEN Tail(pattern) ELSE pattern

\* A variant of TrimSpaces that keeps the trailing spaces (to test C23
\* against)
TrimSpacesNever(pattern) == pattern

\* Trailing spaces go, except that an escaped last one stays
TrimSpaces(pattern) ==
    IF HasSuffix(pattern, <<"\\", " ">>)
    THEN TrimSuffix(pattern, <<"\\", " ">>) \o <<" ">>
    ELSE TrimRight(pattern, " ")

\* A variant of Anchor that ties every pattern to the prefix (to test C14
\* against)
AnchorAlways(c) ==
    IF c.prefix # <<>>
    THEN [c EXCEPT !.prefix = TrimSuffix(c.prefix, <<"/">>) \o <<"/">>]
    ELSE c

\* A pattern without "/" at its beginning or middle may match anywhere
\* below the prefix; else the prefix is made to end with "/"
Anchor(c) ==
    IF Count(TrimSuffix(c.pattern, <<"/">>), <<"/">>) = 0
    THEN [c EXCEPT !.pattern = <<"*", "*", "/">> \o TrimPrefix(c.pattern, <<"/">>)]
    ELSE IF c.prefix # <<>>
    THEN [c EXCEPT !.prefix = TrimSuffix(c.prefix, <<"/">>) \o <<"/">>]
    ELSE c

\* "**", "*" and "?" become placeholders, then the escaped ones come back
StarsToPlaceholders(pattern) ==
    ReplaceAll(ReplaceAll(ReplaceAll(
    ReplaceAll(ReplaceAll(ReplaceAll(pattern,
        <<"*", "*">>, <<doubleStar>>),
        <<"*">>, <<singleStar>>),
        <<"?">>, <<questionMark>>),
        <<"\\", doubleStar>>, <<"*", "*">>),
        <<"\\", singleStar>>, <<"*">>),
        <<"\\", questionMark>>, <<"?">>)

\* In the quoted pattern the brackets become placeholders: the escaped
\* ones first, then "[!", "[" and "]"
BracketsToPlaceholders(quoted) ==
    ReplaceAll(ReplaceAll(ReplaceAll(ReplaceAll(ReplaceAll(quoted,
        <<"\\", "\\", "[">>, <<escapedMatchStart>>),
        <<"\\", "\\", "]">>, <<escapedMatchEnd>>),
        <<"\\", "[", "!">>, <<negatedMatchStart>>),
        <<"\\", "[">>, <<matchStart>>),
        <<"\\", "]">>, <<matchEnd>>)

\* A "/" at the end makes the rule match folders only
FolderSuffix(c) ==
    IF HasSuffix(c.pattern, <<"/">>)
    THEN [c EXCEPT !.pattern = TrimSuffix(c.pattern, <<"/">>),
                   !.rule.OnlyFolder = TRUE]
    ELSE c

\* "?" matches any character but "/"
QuestionMarks(c) ==
    [c EXCEPT !.pattern = ReplaceAll(c.pattern, <<questionMark>>,
                                     <<"[", "^", "/", "]", "?">>)]

\* A variant of LeadingDoubleStar that leaves the prefix as it is (to test
\* C15 against)
LeadingDoubleStarKeepsPrefix(c) ==
    IF ~HasPrefix(c.pattern, <<doubleStar, "/">>) THEN c
    ELSE [c EXCEPT !.pattern = <<"(", ".", "*", "/", ")", "?">>
                               \o TrimPrefix(c.pattern, <<doubleStar, "/">>)]

\* A leading "**" followed by a slash matches in all directories
LeadingDoubleStar(c) ==
    IF ~HasPrefix(c.pattern, <<doubleStar, "/">>) THEN c
    ELSE IF c.prefix = <<>>
    THEN [c EXCEPT !.pattern = <<"(", ".", "*", "/", ")", "?">>
                               \o TrimPrefix(c.pattern, <<doubleStar, "/">>)]
    ELSE [c EXCEPT !.pattern = <<"(", "/", ".", "*", ")", "?">>
                               \o TrimPrefix(c.pattern, <<doubleStar>>),
                   !.prefix = TrimSuffix(c.prefix, <<"/">>)]

\* A variant of TrailingDoubleStar that takes the directory itself too (to
\* test C17 against)
TrailingDoubleStarOrSelf(pattern) ==
    IF HasSuffix(pattern, <<"/", doubleStar>>)
    THEN TrimSuffix(pattern, <<"/", doubleStar>>) \o <<"(", "/", ".", "*", ")", "?">>
    ELSE pattern

\* A trailing "/**" matches everything inside
TrailingDoubleStar(pattern) ==
    IF HasSuffix(pattern, <<"/", doubleStar>>)
    THEN TrimSuffix(pattern, <<doubleStar>>) \o <<".", "*">>
    ELSE pattern

\* "/**/" matches zero or more directories; "*" and every "**" that is
\* left match anything but "/"
StarPlaceholders(pattern) ==
    ReplaceAll(ReplaceAll(ReplaceAll(TrailingDoubleStar(pattern),
        <<"/", doubleStar, "/">>, <<".", "*", "/">>),
        <<singleStar>>, <<"[", "^", "/", "]", "*">>),
        <<doubleStar>>, <<"[", "^", "/", "]", "*">>)

Stars(c) == [c EXCEPT !.pattern = StarPlaceholders(c.pattern)]

Brackets(c) ==
    [c EXCEPT !.pattern =
        BracketsToPlaceholders(QuoteMeta(StarsToPlaceholders(c.pattern)))]

\* findRangeReg.ReplaceAllString(s, repl): every leftmost, shortest piece
\* from a matchStart or negatedMatchStart to the next matchEnd becomes repl
RECURSIVE ReplaceRanges(_, _)
ReplaceRanges(s, repl) ==
    IF s = <<>> THEN <<>>
    ELSE IF Head(s) \in {matchStart, negatedMatchStart}
            /\ \E j \in 2..Len(s) : s[j] = matchEnd
         THEN repl \o ReplaceRanges(
                        SubSeq(s, 1 + (CHOOSE j \in 2..Len(s) :
                                         /\ s[j] = matchEnd
                                         /\ \A m \in 2..(j - 1) : s[m] # matchEnd),
                               Len(s)),
                        repl)
         ELSE <<Head(s)>> \o ReplaceRanges(Tail(s), repl)

\* The pattern after the placeholders of "[!", "[" and "]" are put back
\* (the three replacements finishPattern applies to the variable pattern)
RestoreRanges(pattern) ==
    ReplaceAll(ReplaceAll(ReplaceAll(pattern,
        <<negatedMatchStart>>, <<"[", "^">>),
        <<matchStart>>, <<"[">>),
        <<matchEnd>>, <<"]">>)

\* finishPattern(p): the regexp compiled for p under the prefix
finishPattern(prefix, p) ==
    RegexpCompile(<<"^">> \o QuoteMeta(prefix)
                  \o TrimPrefix(ReplaceAll(ReplaceAll(p,
                                    <<escapedMatchStart>>, <<"[">>),
                                    <<escapedMatchEnd>>, <<"]">>),
                                <<"/">>)
                  \o <<"$">>)

\* The rule with the regexps regs, or the error of the first that failed
Compiled(c, regs) ==
    IF \E n \in 1..Len(regs) : ~regs[n].ok THEN CompileError
    ELSE [skip  |-> FALSE,
          rule  |-> [c.rule EXCEPT !.Regexp =
                        IF Len(regs) = 2 THEN <<regs[1].prog, regs[2].prog>>
                        ELSE <<regs[1].prog>>],
          err   |-> FALSE,
          panic |-> FALSE]

\* The additional pattern is finished first if the ranges made it differ;
\* that first call has put the ranges back in pattern before the second
FinishPatterns(c, additionalPattern) ==
    IF additionalPattern # c.pattern
    THEN Compiled(c, <<finishPattern(c.prefix, additionalPattern),
                       finishPattern(c.prefix, RestoreRanges(c.pattern))>>)
    ELSE Compiled(c, <<finishPattern(c.prefix, c.pattern)>>)

Finish(c) == FinishPatterns(c, ReplaceRanges(c.pattern, <<"[", "^", "/", "]">>))

\* A variant of CompileTrimmed that leaves the "!" in the pattern (to test
\* C24 against)
CompileTrimmedKeepsMark(prefix, original, pattern) ==
    IF Len(pattern) = 0 THEN CompilePanic
    ELSE Finish(Stars(LeadingDoubleStar(QuestionMarks(FolderSuffix(Brackets(Anchor(
           [prefix |-> prefix, pattern |-> pattern,
            rule |-> [ZeroRule EXCEPT !.Prefix = prefix, !.Pattern = original,
                                      !.Negate = (pattern[1] = "!")]])))))))

\* Compile from the negation mark on; pattern[0] of an empty pattern panics
CompileTrimmed(prefix, original, pattern) ==
    IF Len(pattern) = 0 THEN CompilePanic
    ELSE Finish(Stars(LeadingDoubleStar(QuestionMarks(FolderSuffix(Brackets(Anchor(
           [prefix  |-> prefix,
            pattern |-> IF pattern[1] = "!" THEN Tail(pattern) ELSE pattern,
            rule    |-> [ZeroRule EXCEPT !.Prefix = prefix,
                                         !.Pattern = original,
                                         !.Negate = (pattern[1] = "!")]]
         )))))))

\* Compile(prefix, pattern)
Compile(prefix, pattern) ==
    IF Len(pattern) = 0 THEN CompileSkip
    ELSE IF pattern[1] = "#" THEN CompileSkip
    ELSE CompileTrimmed(prefix, pattern, TrimSpaces(UnescapeHash(pattern)))

RECURSIVE CompileLines(_, _, _)

\* The result c of compiling the first of the lines
CompiledLine(prefix, lines, rules, c) ==
    IF c.panic THEN [rules |-> <<>>, err |-> FALSE, panic |-> TRUE]
    ELSE IF c.err THEN [rules |-> <<>>, err |-> TRUE, panic |-> FALSE]
    ELSE CompileLines(prefix, Tail(lines),
                      IF c.skip THEN rules ELSE Append(rules, c.rule))

\* CompileAll, the loop over the lines, each without its trailing \r
CompileLines(prefix, lines, rules) ==
    IF lines = <<>> THEN [rules |-> rules, err |-> FALSE, panic |-> FALSE]
    ELSE CompiledLine(prefix, lines, rules,
                      Compile(prefix, TrimSuffix(Head(lines), <<CR>>)))

\* A variant of CompileAll that takes the data for one line (to test C13
\* against)
CompileAllUnsplit(prefix, data) == CompileLines(prefix, <<data>>, <<>>)

\* CompileAll(prefix, data): rules is the slice returned, err the error;
\* panic = TRUE when a line makes Compile panic
CompileAll(prefix, data) == CompileLines(prefix, Split(data, LF), <<>>)

(***************************************************************************)
(* Package path/filepath (on a system whose separator is "/")              *)
(***************************************************************************)

\* strings.Join(elems, sep)
RECURSIVE JoinWith(_, _)
JoinWith(elems, sep) ==
    IF elems = <<>> THEN <<>>
    ELSE IF Len(elems) = 1 THEN elems[1]
    ELSE elems[1] \o sep \o JoinWith(Tail(elems), sep)

\* The elements of a path that Clean keeps: no empty element, no ".", and
\* ".." takes back the element before it
RECURSIVE CleanElems(_, _, _)
CleanElems(elems, rooted, acc) ==
    IF elems = <<>> THEN acc
    ELSE IF Head(elems) = <<>> \/ Head(elems) = <<".">>
    THEN CleanElems(Tail(elems), rooted, acc)
    ELSE IF Head(elems) # <<".", ".">>
    THEN CleanElems(Tail(elems), rooted, Append(acc, Head(elems)))
    ELSE IF acc # <<>> /\ acc[Len(acc)] # <<".", ".">>
    THEN CleanElems(Tail(elems), rooted, SubSeq(acc, 1, Len(acc) - 1))
    ELSE IF rooted THEN CleanElems(Tail(elems), rooted, acc)
    ELSE CleanElems(Tail(elems), rooted, Append(acc, Head(elems)))

Cleaned(rooted, body) ==
    IF rooted THEN <<"/">> \o body
    ELSE IF body = <<>> THEN <<".">>
    ELSE body

\* filepath.Clean(path)
Clean(path) ==
    Cleaned(HasPrefix(path, <<"/">>),
            JoinWith(CleanElems(Split(path, "/"), HasPrefix(path, <<"/">>), <<>>),
                     <<"/">>))

\* filepath.Join(a, b): empty elements are ignored, the result is cleaned
Join(a, b) ==
    IF a = <<>> /\ b = <<>> THEN <<>>
    ELSE Clean(IF a = <<>> THEN b ELSE IF b = <<>> THEN a ELSE a \o <<"/">> \o b)

\* filepath.ToSlash(path): the separator is already "/"
ToSlash(path) == path

\* The position of the last "/" of path, 0 if there is none
LastSlash(path) ==
    IF \E n \in 1..Len(path) : path[n] = "/"
    THEN CHOOSE n \in 1..Len(path) :
           path[n] = "/" /\ \A m \in (n + 1)..Len(path) : path[m] # "/"
    ELSE 0

\* filepath.Dir(path)
Dir(path) == Clean(SubSeq(path, 1, LastSlash(path)))

BaseOf(p) ==
    IF p = <<>> THEN <<"/">> ELSE SubSeq(p, LastSlash(p) + 1, Len(p))

\* filepath.Base(path)
Base(path) ==
    IF path = <<>> THEN <<".">> ELSE BaseOf(TrimRight(path, "/"))

(***************************************************************************)
(* Result and the resolver                                                 *)
(***************************************************************************)

\* Result{}: the zero value
ZeroResult == [Rule |-> ZeroRule, Found |-> FALSE, ParentMatch |-> FALSE]

\* A variant of MatchPath that is content with one matcher (to test C19
\* against)
MatchPathAny(r, path) ==
    [Rule  |-> r,
     Found |-> \E n \in 1..Len(r.Regexp) : MatchString(r.Regexp[n], path),
     ParentMatch |-> FALSE]

\* Rule.MatchPath(path): Found when the rule has a regexp and all match
MatchPath(r, path) ==
    [Rule  |-> r,
     Found |-> /\ Len(r.Regexp) > 0
               /\ \A n \in 1..Len(r.Regexp) : MatchString(r.Regexp[n], path),
     ParentMatch |-> FALSE]

\* A variant of Resolve without the folder-only case (to test C2 against)
ResolveWithoutFolderCase(r, isDir) ==
    IF r.Found /\ r.Rule.Negate THEN FALSE ELSE r.Found

\* Result.Resolve(isDir)
Resolve(r, isDir) ==
    IF r.Found /\ r.Rule.OnlyFolder /\ ~isDir /\ ~r.ParentMatch THEN FALSE
    ELSE IF r.Found /\ r.Rule.Negate THEN FALSE
    ELSE r.Found

\* A variant of Record in which the first rule found stays (to test C1 against)
RecordFirst(newRes, isDir, parent, because) ==
    IF because.Found THEN because
    ELSE IF newRes.Found
            /\ ((newRes.Rule.OnlyFolder /\ isDir) \/ ~newRes.Rule.OnlyFolder)
    THEN [newRes EXCEPT !.ParentMatch = parent]
    ELSE because

\* A variant of Record that takes folder-only rules for files too (to test
\* C5 against)
RecordAnyFound(newRes, isDir, parent, because) ==
    IF newRes.Found THEN [newRes EXCEPT !.ParentMatch = parent] ELSE because

\* NoGo.match, the body of the loop over the rules: newRes replaces because
\* when it is found and is not a folder-only rule asked about a file
Record(newRes, isDir, parent, because) ==
    IF newRes.Found
       /\ ((newRes.Rule.OnlyFolder /\ isDir) \/ ~newRes.Rule.OnlyFolder)
    THEN [newRes EXCEPT !.ParentMatch = parent]
    ELSE because

\* NoGo.match, the loop over the rules of one group
RECURSIVE ScanRules(_, _, _, _, _)
ScanRules(rules, path, isDir, parent, because) ==
    IF rules = <<>> THEN because
    ELSE ScanRules(Tail(rules), path, isDir, parent,
                   Record(MatchPath(Head(rules), path), isDir, parent, because))

\* NoGo.match, the loop over the groups
RECURSIVE ScanGroups(_, _, _, _, _)
ScanGroups(gs, path, isDir, parent, because) ==
    IF gs = <<>> THEN because
    ELSE ScanGroups(Tail(gs), path, isDir, parent,
                    IF HasPrefix(path, Head(gs).prefix)
                    THEN ScanRules(Head(gs).rules, path, isDir, parent, because)
                    ELSE because)

RECURSIVE ScanPaths(_, _, _, _, _, _)

\* A variant of ScanPath that never sets ParentMatch (to test C27 against)
ScanPathNeverParent(gs, pathToCheck, i, sub, isDir, because) ==
    ScanPaths(gs, pathToCheck, i + 1, sub, isDir,
              ScanGroups(gs, sub, isDir, FALSE, because))

\* NoGo.match, the body of the loop over pathToCheck for the sub-path sub
ScanPath(gs, pathToCheck, i, sub, isDir, because) ==
    ScanPaths(gs, pathToCheck, i + 1, sub, isDir,
              ScanGroups(gs, sub, isDir, i < Len(pathToCheck), because))

\* NoGo.match, the loop over pathToCheck from element i on
ScanPaths(gs, pathToCheck, i, path, isDir, because) ==
    IF i > Len(pathToCheck) THEN because
    ELSE ScanPath(gs, pathToCheck, i, ToSlash(Join(path, pathToCheck[i])),
                  isDir, because)

\* A variant of Decide that returns Found whatever the rule (to test C26
\* against)
DecideFound(because, isDir) == [match |-> because.Found, because |-> because]

\* NoGo.match, the returns after the loops
Decide(because, isDir) ==
    IF because.Found /\ because.Rule.OnlyFolder /\ ~isDir /\ because.ParentMatch
    THEN [match |-> FALSE, because |-> because]
    ELSE IF because.Found /\ because.Rule.Negate
    THEN [match |-> FALSE, because |-> because]
    ELSE [match |-> because.Found, because |-> because]

\* NoGo.match(path, isDir, noParents) on the groups gs
match(gs, path, isDir, noParents) ==
    Decide(ScanPaths(gs,
                     IF noParents THEN <<path>> ELSE Split(ToSlash(path), "/"),
                     1, <<>>, isDir, ZeroResult),
           isDir)

\* NoGo.MatchBecause(path, isDir)
MatchBecause(gs, path, isDir) == match(gs, path, isDir, FALSE)

\* NoGo.Match(path, isDir)
Match(gs, path, isDir) == MatchBecause(gs, path, isDir).match

\* A variant of MatchWithoutParents that checks the parents (to test C6 against)
MatchWithParents(gs, path, isDir) == match(gs, path, isDir, FALSE)

\* NoGo.MatchWithoutParents(path, isDir)
MatchWithoutParents(gs, path, isDir) == match(gs, path, isDir, TRUE)

(***************************************************************************)
(* The file systems handed to AddFile and AddFromFS (an fs.FS): a function *)
(* from the paths below the root to a directory or a file with its bytes.  *)
(***************************************************************************)

FileEntry(data) == [isDir |-> FALSE, data |-> data]
DirEntry        == [isDir |-> TRUE,  data |-> <<>>]

\* a = "d", d/, d/a = "f", d/i = "!f", i = "d\n!d/"
TreeOne ==
    (<<"a">>           :> FileEntry(<<"d">>)) @@
    (<<"d">>           :> DirEntry) @@
    (<<"d", "/", "a">> :> FileEntry(<<"f">>)) @@
    (<<"d", "/", "i">> :> FileEntry(<<"!", "f">>)) @@
    (<<"i">>           :> FileEntry(<<"d", LF, "!", "d", "/">>))

\* a = "!f", d/, d/a = "f", d/f = "", d/i = "f\n[b-a]" (its second line
\* does not compile: the range is reversed)
TreeTwo ==
    (<<"a">>           :> FileEntry(<<"!", "f">>)) @@
    (<<"d">>           :> DirEntry) @@
    (<<"d", "/", "a">> :> FileEntry(<<"f">>)) @@
    (<<"d", "/", "f">> :> FileEntry(<<>>)) @@
    (<<"d", "/", "i">> :> FileEntry(<<"f", LF, "[", "b", "-", "a", "]">>))

FileSystems == <<TreeOne, TreeTwo>>

\* The names an ignore file may be given
IgnoreFileNames == {<<"a">>, <<"i">>}

\* The paths asked of the Match functions, and the paths given to AddFile
QueryPaths == {<<"d">>, <<"f">>, <<"d", "/", "f">>}
MissingPath == <<"x">>

\* The patterns of the rules given to AddRules, each compiled for the root
RulePatterns == {<<"d">>, <<"d", "/">>, <<"!", "d", "/">>, <<"!", "f">>}

\* MustCompileAll(prefix, data)[0] for a pattern that compiles to one rule
MustCompile(prefix, pattern) == CompileAll(prefix, pattern).rules[1]

\* The most groups the store is let grow to
MaxGroups == 2

(***************************************************************************)
(* The rule store and the walk                                             *)
(***************************************************************************)

\* NoGo.AddRules(rules...): one group for each rule
RECURSIVE AddRulesTo(_, _)
AddRulesTo(gs, rules) ==
    IF rules = <<>> THEN gs
    ELSE AddRulesTo(Append(gs, [prefix |-> Head(rules).Prefix,
                                rules  |-> <<Head(rules)>>]),
                    Tail(rules))

\* A variant of AddCompiled that puts the new group first (to test C8 against)
AddCompiledFirst(gs, folder, c) ==
    IF c.panic THEN [groups |-> gs, err |-> "panic"]
    ELSE IF c.err THEN [groups |-> gs, err |-> "CompileError"]
    ELSE [groups |-> <<[prefix |-> folder, rules |-> c.rules]>> \o gs,
          err    |-> "nil"]

\* A variant of AddCompiled that keeps a group for a file that failed to
\* compile (to test C12 against)
AddCompiledAnyway(gs, folder, c) ==
    IF c.panic THEN [groups |-> gs, err |-> "panic"]
    ELSE [groups |-> Append(gs, [prefix |-> folder, rules |-> c.rules]),
          err    |-> IF c.err THEN "CompileError" ELSE "nil"]

\* A variant of Folder that keeps "." for the root (to test C11 against)
FolderWithDot(dir) == dir

\* NoGo.AddFile, after the file is read: the rules c compiled from it
\* become a new group under the folder of the file
AddCompiled(gs, folder, c) ==
    IF c.panic THEN [groups |-> gs, err |-> "panic"]
    ELSE IF c.err THEN [groups |-> gs, err |-> "CompileError"]
    ELSE [groups |-> Append(gs, [prefix |-> folder, rules |-> c.rules]),
          err    |-> "nil"]

\* NoGo.AddFile, the folder of the rules: filepath.Dir(path), "" for "."
Folder(dir) == IF dir = <<".">> THEN <<>> ELSE dir

AddData(gs, folder, data) == AddCompiled(gs, folder, CompileAll(folder, data))

\* NoGo.AddFile(fsys, path): the groups after the call and the error
AddFileTo(gs, fsys, path) ==
    IF path \notin DOMAIN fsys THEN [groups |-> gs, err |-> "ErrNotExist"]
    ELSE IF fsys[path].isDir THEN [groups |-> gs, err |-> "ReadError"]
    ELSE AddData(gs, Folder(Dir(path)), fsys[path].data)

\* A variant of AfterAddFile that hides the error of AddFile (to test C28
\* against)
AfterAddFileAlwaysOk(a) == [ok |-> TRUE, err |-> "nil", groups |-> a.groups]

\* NoGo.WalkFN, the return after AddFile
AfterAddFile(a) ==
    [ok |-> a.err = "nil", err |-> a.err, groups |-> a.groups]

\* A variant of WalkFNOn that does not skip an ignored directory (to test
\* C29 against)
WalkFNOnEntersIgnored(gs, fsys, ignoreFileName, path, isDir, err) ==
    IF err # "nil" THEN [ok |-> FALSE, err |-> err, groups |-> gs]
    ELSE IF path # <<".">> /\ MatchWithoutParents(gs, path, isDir).match
    THEN [ok |-> FALSE, err |-> "nil", groups |-> gs]
    ELSE IF ~isDir /\ Base(path) = ignoreFileName
    THEN AfterAddFile(AddFileTo(gs, fsys, path))
    ELSE [ok |-> TRUE, err |-> "nil", groups |-> gs]

\* NoGo.WalkFN(fsys, ignoreFileName, path, isDir, err)
WalkFNOn(gs, fsys, ignoreFileName, path, isDir, err) ==
    IF err # "nil" THEN [ok |-> FALSE, err |-> err, groups |-> gs]
    ELSE IF path # <<".">> /\ MatchWithoutParents(gs, path, isDir).match
    THEN [ok |-> FALSE, err |-> IF isDir THEN "SkipDir" ELSE "nil", groups |-> gs]
    ELSE IF ~isDir /\ Base(path) = ignoreFileName
    THEN AfterAddFile(AddFileTo(gs, fsys, path))
    ELSE [ok |-> TRUE, err |-> "nil", groups |-> gs]

\* The entries of directory dir, as fs.ReadDir lists them: sorted by name
Children(fsys, dir) == {p \in DOMAIN fsys : Dir(p) = dir}

RECURSIVE SortByName(_)
SortByName(paths) ==
    IF paths = {} THEN <<>>
    ELSE LET first == CHOOSE p \in paths :
                        \A q \in paths \ {p} : StrLess(Base(p), Base(q))
         IN <<first>> \o SortByName(paths \ {first})

ReadDir(fsys, dir) == SortByName(Children(fsys, dir))

\* The ignore files of a tree: its files named ignoreFileName
IgnoreFiles(fsys, ignoreFileName) ==
    {p \in DOMAIN fsys : ~fsys[p].isDir /\ Base(p) = ignoreFileName}

VARIABLES
    groups,     \* NoGo.groups: the rule store
    walk,       \* the fs.WalkDir that AddFromFS is running, if any
    lastCall    \* the last call made on the store and what it returned

vars == <<groups, walk, lastCall>>

NoWalk == [active |-> FALSE, fs |-> 0, name |-> <<>>, pending |-> <<>>, base |-> 0]

Call(op, fs, path, isDir, m, because, err) ==
    [op |-> op, fs |-> fs, path |-> path, isDir |-> isDir,
     match |-> m, because |-> because, err |-> err]

NoCall == Call("New", 0, <<>>, FALSE, FALSE, ZeroResult, "nil")

\* New(): an empty store
Init ==
    /\ groups = <<>>
    /\ walk = NoWalk
    /\ lastCall = NoCall

\* n.AddRules(rules...)
AddRules ==
    /\ ~walk.active
    /\ \E k \in 1..(MaxGroups - Len(groups)) :
         \E pats \in [1..k -> RulePatterns] :
           LET rules == [n \in 1..k |-> MustCompile(<<>>, pats[n])]
           IN /\ groups' = AddRulesTo(groups, rules)
              /\ lastCall' = Call("AddRules", 0, <<>>, FALSE, FALSE, ZeroResult, "nil")
    /\ UNCHANGED walk

AddedFile(f, path, a) ==
    /\ groups' = a.groups
    /\ lastCall' = Call("AddFile", f, path, FALSE, FALSE, ZeroResult, a.err)

\* n.AddFile(fsys, path)
AddFile ==
    /\ ~walk.active
    /\ Len(groups) < MaxGroups
    /\ \E f \in 1..Len(FileSystems) :
         \E path \in DOMAIN FileSystems[f] \cup {MissingPath} :
           AddedFile(f, path, AddFileTo(groups, FileSystems[f], path))
    /\ UNCHANGED walk

\* n.Match(path, isDir)
DoMatch ==
    /\ ~walk.active
    /\ \E path \in QueryPaths, isDir \in BOOLEAN :
         lastCall' = Call("Match", 0, path, isDir,
                          Match(groups, path, isDir), ZeroResult, "nil")
    /\ UNCHANGED <<groups, walk>>

\* n.MatchBecause(path, isDir)
DoMatchBecause ==
    /\ ~walk.active
    /\ \E path \in QueryPaths, isDir \in BOOLEAN :
         LET r == MatchBecause(groups, path, isDir)
         IN lastCall' = Call("MatchBecause", 0, path, isDir, r.match, r.because, "nil")
    /\ UNCHANGED <<groups, walk>>

\* n.MatchWithoutParents(path, isDir)
DoMatchWithoutParents ==
    /\ ~walk.active
    /\ \E path \in QueryPaths, isDir \in BOOLEAN :
         LET r == MatchWithoutParents(groups, path, isDir)
         IN lastCall' = Call("MatchWithoutParents", 0, path, isDir,
                             r.match, r.because, "nil")
    /\ UNCHANGED <<groups, walk>>

\* n.AddFromFS(fsys, ignoreFilename) is called: fs.WalkDir starts at "."
AddFromFS ==
    /\ ~walk.active
    /\ \E f \in 1..Len(FileSystems), name \in IgnoreFileNames :
         /\ Len(groups) + Cardinality(IgnoreFiles(FileSystems[f], name)) <= MaxGroups
         /\ walk' = [active |-> TRUE, fs |-> f, name |-> name,
                     pending |-> << <<".">> >>, base |-> Len(groups)]
         /\ lastCall' = Call("AddFromFS", f, name, TRUE, FALSE, ZeroResult, "walking")
    /\ UNCHANGED groups

\* The root "." is a directory
IsDirIn(fsys, path) == IF path = <<".">> THEN TRUE ELSE fsys[path].isDir

\* What fs.WalkDir goes on with after the callback returned r for path
Pending(fsys, path, isDir, r) ==
    IF r.err = "nil"
    THEN (IF isDir THEN ReadDir(fsys, path) ELSE <<>>) \o Tail(walk.pending)
    ELSE IF r.err = "SkipDir" THEN Tail(walk.pending)
    ELSE <<>>

Visited(fsys, path, isDir, r) ==
    /\ groups' = r.groups
    /\ lastCall' = Call("WalkFN", walk.fs, path, isDir, r.ok, ZeroResult, r.err)
    /\ walk' = [walk EXCEPT !.pending = Pending(fsys, path, isDir, r)]

Visit(fsys, path, isDir) ==
    Visited(fsys, path, isDir,
            WalkFNOn(groups, fsys, walk.name, path, isDir, "nil"))

\* fs.WalkDir visits the next path: the callback of AddFromFS calls WalkFN
\* and returns its error; SkipDir skips the directory, another error ends
\* the walk, and a directory that is entered has its entries visited next
WalkStep ==
    /\ walk.active
    /\ walk.pending # <<>>
    /\ Visit(FileSystems[walk.fs], Head(walk.pending),
             IsDirIn(FileSystems[walk.fs], Head(walk.pending)))

\* fs.WalkDir has nothing left to visit: AddFromFS returns
AddFromFSReturn ==
    /\ walk.active
    /\ walk.pending = <<>>
    /\ walk' = [walk EXCEPT !.active = FALSE]
    /\ lastCall' = Call("AddFromFS", walk.fs, walk.name, TRUE, FALSE, ZeroResult,
                        IF lastCall.err = "SkipDir" THEN "nil" ELSE lastCall.err)
    /\ UNCHANGED groups

Next ==
    \/ AddRules
    \/ AddFile
    \/ DoMatch
    \/ DoMatchBecause
    \/ DoMatchWithoutParents
    \/ AddFromFS
    \/ WalkStep
    \/ AddFromFSReturn

Spec == Init /\ [][Next]_vars

(***************************************************************************)
(* Result.Resolve on its own: a Result is a plain struct, so Resolve is    *)
(* called on every combination of its fields.                              *)
(***************************************************************************)

ResolvePatterns ==
    {<<"d">>, <<"d", "/">>, <<"!", "d">>, <<"!", "d", "/">>,
     <<"f">>, <<"f", "/">>, <<"!", "f">>, <<"!", "f", "/">>}

ResolvePrefixes == {<<>>, <<"d">>}

ResolveResults ==
    {[Rule |-> MustCompile(prefix, pattern), Found |-> found, ParentMatch |-> parent] :
        prefix \in ResolvePrefixes, pattern \in ResolvePatterns,
        found \in BOOLEAN, parent \in BOOLEAN}

\* A Result r and an isDir are at hand
InitResolve ==
    /\ groups = <<>>
    /\ walk = NoWalk
    /\ lastCall \in {Call("Result", 0, <<>>, isDir, FALSE, r, "nil") :
                        r \in ResolveResults, isDir \in BOOLEAN}

\* r.Resolve(isDir)
ResolveCall ==
    /\ lastCall.op = "Result"
    /\ lastCall' = [lastCall EXCEPT !.op = "Resolve",
                                    !.match = Resolve(lastCall.because, lastCall.isDir)]
    /\ UNCHANGED <<groups, walk>>

SpecResolve == InitResolve /\ [][ResolveCall]_vars

(***************************************************************************)
(* Compile, CompileAll and Rule.MatchPath on their own: a prefix and a     *)
(* text are at hand; the text is compiled as one pattern or as the bytes   *)
(* of an ignore file, and a compiled rule is asked about a path.           *)
(***************************************************************************)

\* The strings of 1 to n characters out of chars
Strings(chars, n) == UNION {[1..k -> chars] : k \in 1..n}

\* Names with the characters that a pattern can escape, or with a space
SpecialPaths ==
    {<<"!", "a">>, <<"\\", "!", "a">>, <<"[", "a", "]">>, <<"*">>, <<"?">>,
     <<"#", "a">>, <<"\\", "#", "a">>, <<"a", " ">>, <<"a", "\\">>,
     <<"a", "\\", " ">>, <<" ">>, <<"b", "/", "!", "a">>}

\* The longest path asked of MatchPath, and the paths: every string of the
\* characters a, b and "/", and the special names
MaxPathLen == 6
MatchPaths == Strings({"a", "b", "/"}, MaxPathLen) \cup SpecialPaths

CompilePrefixes == {<<>>, <<"b">>}

\* The patterns given to Compile
CompilePatterns ==
    {<<"a">>, <<"a", "a">>, <<"a", "/">>, <<"/", "a">>, <<"a", "/", "b">>,
     <<"/", "a", "/", "b">>, <<"a", "/", "b", "/">>, <<"/", "a", "/">>,
     <<"a", "/", "*", "*", "/", "b">>, <<"a", "/", "*", "*">>,
     <<"a", "?">>, <<"/", "a", "?">>, <<"/", "a", "*">>, <<"/", "*", "a">>,
     <<"a", "*">>, <<"/", "a", "*", "*", "b">>, <<"/", "a", "*", "*">>,
     <<"/", "[", "a", "b", "]">>, <<"/", "[", "!", "a", "]">>,
     <<"/", "a", "[", "!", "b", "]">>, <<"[", "a", "b", "]", "a">>,
     <<"[", "a">>, <<"[", "a", "b">>, <<"a", "[", "b">>, <<"[", "!", "a">>,
     <<"\\", "[", "a">>, <<"[", "b", "-", "a", "]">>, <<"#", "a">>, <<" ">>,
     <<>>,
     <<"\\", "!", "a">>, <<"\\", "[", "a", "\\", "]">>, <<"\\", "*">>,
     <<"\\", "?">>, <<"\\", "#", "a">>,
     <<"a", " ">>, <<"a", " ", " ">>, <<"a", "\\", " ">>,
     <<"a", "\\", " ", " ">>, <<"\\", " ">>,
     <<"!", "a">>, <<"!", "a", "/">>, <<"!", "/", "a">>, <<"!", "!", "a">>,
     <<"!">>, <<"/">>}

\* The lines of the ignore files given to CompileAll, and the most lines of
\* a file
DataLines ==
    {<<>>, <<"#", "a">>, <<"a">>, <<"!", "b", "/">>, <<"a", CR>>, <<CR>>,
     <<"a", CR, CR>>, <<" ">>, <<"[", "b", "-", "a", "]">>}
MaxLines == 3
CompileData ==
    {JoinWith(lines, <<LF>>) : lines \in Strings(DataLines, MaxLines)}

\* A prefix and a text are at hand
InitCompile ==
    /\ groups = <<>>
    /\ walk = NoWalk
    /\ lastCall \in {[op |-> "Input", prefix |-> prefix, text |-> text] :
                        prefix \in CompilePrefixes,
                        text \in CompilePatterns \cup CompileData}

\* Compile(prefix, pattern)
CompileCall ==
    /\ lastCall.op = "Input"
    /\ lastCall.text \in CompilePatterns
    /\ lastCall' = [op |-> "Compile", prefix |-> lastCall.prefix,
                    text |-> lastCall.text,
                    result |-> Compile(lastCall.prefix, lastCall.text)]
    /\ UNCHANGED <<groups, walk>>

\* CompileAll(prefix, data)
CompileAllCall ==
    /\ lastCall.op = "Input"
    /\ lastCall.text \in CompileData
    /\ lastCall' = [op |-> "CompileAll", prefix |-> lastCall.prefix,
                    text |-> lastCall.text,
                    result |-> CompileAll(lastCall.prefix, lastCall.text)]
    /\ UNCHANGED <<groups, walk>>

\* rule.MatchPath(path), for a rule that Compile returned
MatchPathCall ==
    /\ lastCall.op = "Compile"
    /\ ~lastCall.result.skip
    /\ ~lastCall.result.err
    /\ ~lastCall.result.panic
    /\ \E path \in MatchPaths :
         lastCall' = [op |-> "MatchPath", prefix |-> lastCall.prefix,
                      text |-> lastCall.text, rule |-> lastCall.result.rule,
                      path |-> path,
                      found |-> MatchPath(lastCall.result.rule, path).Found]
    /\ UNCHANGED <<groups, walk>>

NextCompile ==
    \/ CompileCall
    \/ CompileAllCall
    \/ MatchPathCall

SpecCompile == InitCompile /\ [][NextCompile]_vars

(***************************************************************************)
(* NoGo.WalkFN on its own: it is an exported method, called by any walk    *)
(* with the path, the isDir and the error the walk has at hand.            *)
(***************************************************************************)

\* The stores WalkFN is called on: up to two rules added with AddRules
WalkRulePatterns == RulePatterns \cup {<<"i">>}
WalkStores ==
    {<<>>}
    \cup {AddRulesTo(<<>>, <<MustCompile(<<>>, p)>>) : p \in WalkRulePatterns}
    \cup {AddRulesTo(<<>>, <<MustCompile(<<>>, p), MustCompile(<<>>, q)>>) :
            p \in WalkRulePatterns, q \in WalkRulePatterns}

\* The errors a walk hands to WalkFN
WalkErrors == {"nil", "ReadError"}

\* A store, a file system, an ignore file name, a path of the file system
\* and an error are at hand
InitWalkFN ==
    /\ groups \in WalkStores
    /\ walk = NoWalk
    /\ lastCall \in UNION {
            {[op |-> "WalkInput", fs |-> f, name |-> name, path |-> path,
              isDir |-> IsDirIn(FileSystems[f], path), err |-> err] :
              name \in IgnoreFileNames,
              path \in DOMAIN FileSystems[f] \cup {<<".">>},
              err \in WalkErrors} :
            f \in 1..Len(FileSystems)}

WalkFNReturned(r) ==
    /\ groups' = r.groups
    /\ lastCall' = [op |-> "WalkFNCall", fs |-> lastCall.fs,
                    name |-> lastCall.name, path |-> lastCall.path,
                    isDir |-> lastCall.isDir, errIn |-> lastCall.err,
                    before |-> groups, ok |-> r.ok, err |-> r.err]
    /\ UNCHANGED walk

\* n.WalkFN(fsys, ignoreFileName, path, isDir, err)
WalkFNCall ==
    /\ lastCall.op = "WalkInput"
    /\ WalkFNReturned(WalkFNOn(groups, FileSystems[lastCall.fs], lastCall.name,
                               lastCall.path, lastCall.isDir, lastCall.err))

SpecWalkFN == InitWalkFN /\ [][WalkFNCall]_vars

(***************************************************************************)
(* Properties.  The scan of NoGo.match is described here by the set of its *)
(* hits: a hit <<i, g, k>> is rule k of group g matching the i-th sub-path *)
(* of the queried path.  Scan order is the order of i, then g, then k.     *)
(***************************************************************************)

QueryOps == {"Match", "MatchBecause", "MatchWithoutParents"}

\* The number of sub-paths of a path, and its i-th sub-path: the path up
\* to, and without, its i-th "/"
Depth(path) == Len(Split(path, "/"))
SubPath(path, i) == JoinWith(SubSeq(Split(path, "/"), 1, i), <<"/">>)

ProperAncestors(path) == {SubPath(path, i) : i \in 1..(Depth(path) - 1)}

\* All matchers of the rule match p
AllMatch(rule, p) ==
    /\ Len(rule.Regexp) > 0
    /\ \A n \in 1..Len(rule.Regexp) : MatchString(rule.Regexp[n], p)

RuleAt(gs, hit) == gs[hit[2]].rules[hit[3]]

\* The hits of the scan over the sub-paths whose numbers are in levels
Hits(gs, path, levels) ==
    {hit \in UNION {{<<i, g, k>> : k \in 1..Len(gs[g].rules)} :
                       i \in levels, g \in 1..Len(gs)} :
        /\ HasPrefix(SubPath(path, hit[1]), gs[hit[2]].prefix)
        /\ AllMatch(RuleAt(gs, hit), SubPath(path, hit[1]))}

\* The hits that are not those of a folder-only rule in a query for a file
Admitted(gs, path, levels, isDir) ==
    {hit \in Hits(gs, path, levels) : isDir \/ ~RuleAt(gs, hit).OnlyFolder}

Before(u, t) ==
    \/ u[1] < t[1]
    \/ u[1] = t[1] /\ u[2] < t[2]
    \/ u[1] = t[1] /\ u[2] = t[2] /\ u[3] < t[3]

\* The last hit of a non-empty set, in scan order
Latest(hits) == CHOOSE t \in hits : \A u \in hits \ {t} : Before(u, t)

\* The Result that names the last of the hits; none found if there is no hit
Deciding(gs, path, hits) ==
    IF hits = {} THEN ZeroResult
    ELSE [Rule        |-> RuleAt(gs, Latest(hits)),
          Found       |-> TRUE,
          ParentMatch |-> Latest(hits)[1] < Depth(path)]

\* The sub-paths the last call scanned
LevelsOf(call) ==
    IF call.op = "MatchWithoutParents" THEN {Depth(call.path)}
    ELSE 1..Depth(call.path)

C2_Resolve ==
    lastCall.op = "Resolve" =>
        lastCall.match =
            (IF lastCall.because.Rule.OnlyFolder /\ ~lastCall.isDir
                /\ ~lastCall.because.ParentMatch
             THEN FALSE
             ELSE IF lastCall.because.Rule.Negate THEN FALSE
             ELSE lastCall.because.Found)

\* Resolve has answered for a found folder-only rule and a file
C2_Witness ==
    /\ lastCall.op = "Resolve"
    /\ lastCall.because.Found
    /\ lastCall.because.Rule.OnlyFolder
    /\ ~lastCall.because.Rule.Negate
    /\ ~lastCall.isDir
    /\ ~lastCall.because.ParentMatch
    /\ ~lastCall.match

\* The last rule matching directory dir itself is not a negation: dir is excluded
Excluded(gs, dir) == MatchWithoutParents(gs, dir, TRUE).match

\* C3: if a proper ancestor directory of the queried path is excluded,
\* Match and MatchBecause return ignored for the path, whatever negated
\* rules match the path itself.
C3_NoResurrection ==
    (/\ lastCall.op \in {"Match", "MatchBecause"}
     /\ \E dir \in ProperAncestors(lastCall.path) : Excluded(groups, dir))
    => lastCall.match

\* The hits at the directory that holds the path of the call
ParentHits(call) == Hits(groups, call.path, {Depth(call.path) - 1})

\* C4: with a folder-only rule excluding the directory of a file and no
\* rule matching the file itself, Match returns ignored for the file and
\* the Result names the folder-only rule with ParentMatch = TRUE.
C4_FileInExcludedFolder ==
    (/\ lastCall.op = "MatchBecause"
     /\ ~lastCall.isDir
     /\ Hits(groups, lastCall.path, {Depth(lastCall.path)}) = {}
     /\ ParentHits(lastCall) # {}
     /\ RuleAt(groups, Latest(ParentHits(lastCall))).OnlyFolder
     /\ ~RuleAt(groups, Latest(ParentHits(lastCall))).Negate)
    => /\ lastCall.match
       /\ lastCall.because.Found
       /\ lastCall.because.Rule.OnlyFolder
       /\ lastCall.because.ParentMatch

\* The only hit of the last call's scan is a folder-only rule at the
\* queried path itself
OnlyFolderRuleHits ==
    /\ lastCall.op \in QueryOps
    /\ Cardinality(Hits(groups, lastCall.path, LevelsOf(lastCall))) = 1
    /\ Hits(groups, lastCall.path, LevelsOf(lastCall))
         = Hits(groups, lastCall.path, {Depth(lastCall.path)})
    /\ RuleAt(groups, Latest(Hits(groups, lastCall.path, LevelsOf(lastCall)))).OnlyFolder

\* With isDir false, no folder-only rule matching the queried path itself
\* is the deciding rule
NoFolderRuleForFile ==
    (lastCall.op \in QueryOps /\ ~lastCall.isDir)
    => ~(/\ lastCall.because.Found
         /\ lastCall.because.Rule.OnlyFolder
         /\ ~lastCall.because.ParentMatch)

\* C5 (as amended): for isDir = FALSE a folder-only rule matching the
\* queried path itself is never the deciding rule; a store whose only rule
\* matching the path is folder-only and not a negation returns not ignored
\* for isDir = FALSE and ignored for isDir = TRUE, in Match and in
\* MatchWithoutParents.
C5_FolderOnlyPlain ==
    /\ NoFolderRuleForFile
    /\ (/\ OnlyFolderRuleHits
        /\ ~RuleAt(groups, Latest(Hits(groups, lastCall.path, LevelsOf(lastCall)))).Negate)
       => (lastCall.match = lastCall.isDir)

\* C5 as stated: the same for every folder-only rule, negation or not.
C5_FolderOnlyAny ==
    /\ NoFolderRuleForFile
    /\ OnlyFolderRuleHits => (lastCall.match = lastCall.isDir)

\* A file was asked about and the only rule matching it is folder-only
C5_Witness ==
    /\ OnlyFolderRuleHits
    /\ ~RuleAt(groups, Latest(Hits(groups, lastCall.path, LevelsOf(lastCall)))).Negate
    /\ ~lastCall.isDir
    /\ ~lastCall.match

\* C6: the Result of MatchWithoutParents has ParentMatch = FALSE and names
\* a rule only if that rule matches the full path; a path matched only
\* through an ancestor is not found and not ignored.
C6_FullPathOnly ==
    lastCall.op = "MatchWithoutParents" =>
        /\ ~lastCall.because.ParentMatch
        /\ lastCall.because.Found => AllMatch(lastCall.because.Rule, lastCall.path)
        /\ Hits(groups, lastCall.path, {Depth(lastCall.path)}) = {}
             => (~lastCall.because.Found /\ ~lastCall.match)

\* MatchWithoutParents was asked about a path that rules match only
\* through an ancestor
C6_Witness ==
    /\ lastCall.op = "MatchWithoutParents"
    /\ Hits(groups, lastCall.path, {Depth(lastCall.path)}) = {}
    /\ Hits(groups, lastCall.path, 1..(Depth(lastCall.path) - 1)) # {}
    /\ ~lastCall.because.Found
    /\ ~lastCall.match

\* C7: when every proper ancestor directory of a path, asked about with
\* isDir = TRUE, is not ignored, MatchWithoutParents returns for the path
\* what Match returns.
C7_FastPathValid ==
    (/\ lastCall.op = "MatchWithoutParents"
     /\ \A dir \in ProperAncestors(lastCall.path) :
          /\ ~MatchWithoutParents(groups, dir, TRUE).match
          /\ ~Match(groups, dir, TRUE))
    => (lastCall.match = Match(groups, lastCall.path, lastCall.isDir))

\* s is a prefix of t
IsPrefixOf(s, t) == Len(s) <= Len(t) /\ SubSeq(t, 1, Len(s)) = s

\* C8: in every call the groups before it are a prefix of the groups after
\* it, and Match, MatchBecause and MatchWithoutParents leave the groups as
\* they are.
C8_StoreOnlyGrows ==
    [][/\ IsPrefixOf(groups, groups')
       /\ lastCall'.op \in QueryOps => groups' = groups]_vars

\* The store has grown twice and was then asked
C8_Witness ==
    /\ Len(groups) >= 2
    /\ lastCall.op \in QueryOps

\* Directory a is a proper ancestor of directory d ("" is the root)
ProperAncestorDir(a, d) ==
    /\ a # d
    /\ a = <<>> \/ HasPrefix(d, a \o <<"/">>)

\* C9: among the groups AddFromFS has loaded, the group of a directory
\* precedes the group of every directory below it.
C9_AncestorsFirst ==
    lastCall.op \in {"WalkFN", "AddFromFS"} =>
        \A i, j \in (walk.base + 1)..Len(groups) :
            ProperAncestorDir(groups[i].prefix, groups[j].prefix) => i < j

\* C10: when the walk asks about an entry of a directory that has an
\* ignore file, that file is already loaded.
C10_LoadedBeforeEntries ==
    (/\ lastCall.op = "WalkFN"
     /\ walk.active
     /\ lastCall.path # <<".">>
     /\ Base(lastCall.path) # walk.name
     /\ Join(Dir(lastCall.path), walk.name)
          \in IgnoreFiles(FileSystems[walk.fs], walk.name))
    => \E g \in (walk.base + 1)..Len(groups) :
          groups[g].prefix = Folder(Dir(lastCall.path))

\* The directory that holds the file at path: the path without its last
\* element, "" for a file of the root
ContainingDir(path) == SubPath(path, Depth(path) - 1)

\* The bytes of the file the last call named
DataOf(call) == FileSystems[call.fs][call.path].data

\* C11: an AddFile that returns no error appends exactly one group to the
\* groups there were: its prefix is the directory that holds the file
\* ("" for the root), its rules are what CompileAll returns for that prefix
\* and the bytes of the file.
C11_AddFileAppendsOneGroup ==
    [][(lastCall'.op = "AddFile" /\ lastCall'.err = "nil") =>
         groups' = Append(groups,
                     [prefix |-> ContainingDir(lastCall'.path),
                      rules  |-> CompileAll(ContainingDir(lastCall'.path),
                                            DataOf(lastCall')).rules])]_vars

\* AddFile has loaded a file of a sub-directory after another group, and a
\* file of the root
C11_Witness ==
    /\ lastCall.op = "AddFile"
    /\ lastCall.err = "nil"
    /\ Len(groups) = 2
    /\ groups[1].prefix = <<>>
    /\ groups[2].prefix = <<"d">>
    /\ Len(groups[2].rules) = 1

\* C12: an AddFile that returns an error, called directly or by WalkFN,
\* leaves the groups as they were; and when the error is that of a line
\* that does not compile, CompileAll returns no rule for the file.
C12_FailedLoadLeavesStore ==
    [][/\ (lastCall'.op \in {"AddFile", "WalkFN"}
           /\ lastCall'.err \in {"ErrNotExist", "ReadError", "CompileError"})
          => groups' = groups
       /\ (lastCall'.op = "AddFile" /\ lastCall'.err = "CompileError")
          => /\ CompileAll(ContainingDir(lastCall'.path), DataOf(lastCall')).err
             /\ CompileAll(ContainingDir(lastCall'.path), DataOf(lastCall')).rules
                  = <<>>]_vars

\* AddFile has failed on a file whose first line compiles and whose second
\* does not, with a group in the store
C12_Witness ==
    /\ lastCall.op = "AddFile"
    /\ lastCall.err = "CompileError"
    /\ Len(groups) = 1
    /\ ~Compile(ContainingDir(lastCall.path),
                Head(Split(DataOf(lastCall), LF))).err

\* The lines of data, each without one trailing \r, that are neither empty
\* nor a comment
WithoutCR(lines) == [n \in 1..Len(lines) |-> TrimSuffix(lines[n], <<CR>>)]
IsRuleLine(line) == line # <<>> /\ line[1] # "#"
RuleLines(data) == SelectSeq(WithoutCR(Split(data, LF)), IsRuleLine)

\* C13: when CompileAll returns rules, they are one rule for each line of
\* the data that, after one trailing \r is taken off, is neither empty nor
\* a comment: in the order of the lines, each with Prefix = prefix and what
\* Compile makes of the line.
C13_OneRulePerLine ==
    (/\ lastCall.op = "CompileAll"
     /\ ~lastCall.result.err
     /\ ~lastCall.result.panic)
    => LET kept  == RuleLines(lastCall.text)
           rules == lastCall.result.rules
       IN /\ Len(rules) = Len(kept)
          /\ \A n \in 1..Len(kept) :
                /\ rules[n].Prefix = lastCall.prefix
                /\ rules[n].Pattern = kept[n]
                /\ rules[n] = Compile(lastCall.prefix, kept[n]).rule

\* CompileAll has returned two rules for three lines, one of them a
\* comment, one of them ending in \r
C13_Witness ==
    /\ lastCall.op = "CompileAll"
    /\ lastCall.prefix = <<"b">>
    /\ Len(Split(lastCall.text, LF)) = 3
    /\ Len(lastCall.result.rules) = 2
    /\ lastCall.result.rules[1].Pattern = <<"a">>
    /\ \E n \in 1..Len(lastCall.text) : lastCall.text[n] = CR
    /\ \E n \in 1..Len(lastCall.text) : lastCall.text[n] = "#"

\* The segments of a path, and of a prefix ("" has none)
Segments(path) == Split(path, "/")
PrefixSegments(prefix) == IF prefix = <<>> THEN <<>> ELSE Split(prefix, "/")

\* A path as a walk or a caller gives it: no empty segment, so no "/" at
\* its beginning or end and no "//"
IsCleanPath(path) == \A n \in 1..Len(Segments(path)) : Segments(path)[n] # <<>>

\* A name: letters only
IsName(x) == x # <<>> /\ \A n \in 1..Len(x) : x[n] \in {"a", "b"}

\* A pattern without its "/" at the beginning and at the end, and the
\* patterns that are names joined by "/"
Body(pattern) == TrimSuffix(TrimPrefix(pattern, <<"/">>), <<"/">>)
IsPlain(pattern) ==
    \A n \in 1..Len(Segments(Body(pattern))) : IsName(Segments(Body(pattern))[n])

\* The path is prefix/name or prefix/<directories>/name
AtAnyDepth(prefix, name, path) ==
    /\ IsPrefixOf(PrefixSegments(prefix), Segments(path))
    /\ Len(Segments(path)) > Len(PrefixSegments(prefix))
    /\ Segments(path)[Len(Segments(path))] = name

\* The path is prefix/body
AtPrefix(prefix, body, path) ==
    Segments(path) = PrefixSegments(prefix) \o Segments(body)

\* C14: a plain pattern without "/", or with a "/" only at its end, matches
\* a path exactly when the path is prefix/name or prefix/<directories>/name;
\* a plain pattern with a "/" at its beginning or in its middle matches
\* exactly the path prefix/pattern.
C14_Anchoring ==
    (/\ lastCall.op = "MatchPath"
     /\ IsPlain(lastCall.text)
     /\ IsCleanPath(lastCall.path))
    => (lastCall.found <=>
          IF Len(Segments(Body(lastCall.text))) = 1 /\ lastCall.text[1] # "/"
          THEN AtAnyDepth(lastCall.prefix, Body(lastCall.text), lastCall.path)
          ELSE AtPrefix(lastCall.prefix, Body(lastCall.text), lastCall.path))

\* The pattern a, compiled for the prefix b, has matched b/b/a
C14_Witness ==
    /\ lastCall.op = "MatchPath"
    /\ lastCall.prefix = <<"b">>
    /\ lastCall.text = <<"a">>
    /\ lastCall.path = <<"b", "/", "b", "/", "a">>
    /\ lastCall.found

\* The text has no "/"
HasNoSlash(text) == \A n \in 1..Len(text) : text[n] # "/"

\* The text is a pattern for a name: it has no "/" and does not begin
\* with a mark that Compile reads at the beginning of a line only
IsNamePattern(text) ==
    /\ HasNoSlash(text)
    /\ text # <<>>
    /\ text[1] \notin {"!", "#", "\\"}

\* C15: for a pattern x for a name, the rule Compile makes of "**/x" under
\* the same prefix gives for every path the answer the rule of x gives.
C15_LeadingDoubleStar ==
    (/\ lastCall.op = "MatchPath"
     /\ IsNamePattern(lastCall.text))
    => (lastCall.found =
          MatchPath(Compile(lastCall.prefix,
                            <<"*", "*", "/">> \o lastCall.text).rule,
                    lastCall.path).Found)

\* The rule of a under the prefix b has matched a path two levels below b,
\* as the rule of **/a does
C15_Witness ==
    /\ lastCall.op = "MatchPath"
    /\ lastCall.prefix = <<"b">>
    /\ lastCall.text = <<"a">>
    /\ lastCall.path = <<"b", "/", "a", "/", "a">>
    /\ lastCall.found
    /\ MatchPath(Compile(<<"b">>, <<"*", "*", "/", "a">>).rule, lastCall.path).Found

\* C16: the pattern a/**/b matches a path exactly when the path is
\* prefix/a/b or prefix/a/<directories>/b.
C16_MiddleDoubleStar ==
    (/\ lastCall.op = "MatchPath"
     /\ lastCall.text = <<"a", "/", "*", "*", "/", "b">>
     /\ IsCleanPath(lastCall.path))
    => (lastCall.found <=>
          /\ IsPrefixOf(PrefixSegments(lastCall.prefix) \o << <<"a">> >>,
                        Segments(lastCall.path))
          /\ Len(Segments(lastCall.path)) >= Len(PrefixSegments(lastCall.prefix)) + 2
          /\ Segments(lastCall.path)[Len(Segments(lastCall.path))] = <<"b">>)

\* C17: the pattern a/** matches a path exactly when the path is below
\* prefix/a: not prefix/a itself, and nothing below prefix/aa.
C17_TrailingDoubleStar ==
    (/\ lastCall.op = "MatchPath"
     /\ lastCall.text = <<"a", "/", "*", "*">>
     /\ IsCleanPath(lastCall.path))
    => (lastCall.found <=>
          /\ IsPrefixOf(PrefixSegments(lastCall.prefix) \o << <<"a">> >>,
                        Segments(lastCall.path))
          /\ Len(Segments(lastCall.path)) > Len(PrefixSegments(lastCall.prefix)) + 1)

\* The pattern a/** under the prefix b has matched b/a/a
C17_Witness ==
    /\ lastCall.op = "MatchPath"
    /\ lastCall.prefix = <<"b">>
    /\ lastCall.text = <<"a", "/", "*", "*">>
    /\ lastCall.path = <<"b", "/", "a", "/", "a">>
    /\ lastCall.found

\* The prefix as the directory part of a path: "" or prefix/
PrefixDir(prefix) == IF prefix = <<>> THEN <<>> ELSE prefix \o <<"/">>

\* C18: "?" stands for exactly one character other than "/": the pattern
\* /a? matches exactly the paths prefix/a<c> with c not "/", and the pattern
\* a? the clean paths whose last segment, below the prefix, is a<c>.
C18_QuestionMarkIsOneChar ==
    /\ (lastCall.op = "MatchPath" /\ lastCall.text = <<"/", "a", "?">>)
       => (lastCall.found <=>
             \E c \in {"a", "b"} :
                lastCall.path = PrefixDir(lastCall.prefix) \o <<"a", c>>)
    /\ (lastCall.op = "MatchPath" /\ lastCall.text = <<"a", "?">>
          /\ IsCleanPath(lastCall.path))
       => (lastCall.found <=>
             \E c \in {"a", "b"} :
                AtAnyDepth(lastCall.prefix, <<"a", c>>, lastCall.path))

\* The patterns of one segment with a wildcard, each with the literal
\* text before and after the wildcard
WildcardPatterns ==
    {[text |-> <<"/", "a", "*">>,           pre |-> <<"a">>, post |-> <<>>],
     [text |-> <<"/", "*", "a">>,           pre |-> <<>>,    post |-> <<"a">>],
     [text |-> <<"/", "a", "?">>,           pre |-> <<"a">>, post |-> <<>>],
     [text |-> <<"/", "a", "*", "*", "b">>, pre |-> <<"a">>, post |-> <<"b">>],
     [text |-> <<"/", "a", "*", "*">>,      pre |-> <<"a">>, post |-> <<>>],
     [text |-> <<"/", "[", "a", "b", "]">>, pre |-> <<>>,    post |-> <<>>],
     [text |-> <<"/", "[", "!", "a", "]">>, pre |-> <<>>,    post |-> <<>>],
     [text |-> <<"/", "a", "[", "!", "b", "]">>, pre |-> <<"a">>, post |-> <<>>],
     [text |-> <<"a", "*">>,                pre |-> <<"a">>, post |-> <<>>],
     [text |-> <<"a", "?">>,                pre |-> <<"a">>, post |-> <<>>],
     [text |-> <<"[", "a", "b", "]", "a">>, pre |-> <<>>,    post |-> <<"a">>]}

\* The segment seg is pre, a part without "/", and post
AroundWildcard(w, seg) ==
    /\ HasNoSlash(seg)
    /\ HasPrefix(seg, w.pre)
    /\ HasSuffix(seg, w.post)
    /\ Len(seg) >= Len(w.pre) + Len(w.post)

\* The one segment of the path that the pattern of w stands for: what
\* follows prefix/ for a pattern that starts with "/", else the last segment
WildcardSegment(w, prefix, path) ==
    IF w.text[1] = "/"
    THEN SubSeq(path, Len(PrefixDir(prefix)) + 1, Len(path))
    ELSE Segments(path)[Len(Segments(path))]

\* C19: a path that a rule with "*", "?", a "**" inside a name or a
\* character class matches has no "/" in the part the wildcard stands for:
\* a pattern tied to the prefix matches only prefix/<segment>, and the
\* segment is the literal text around a part without "/".  A rule matches
\* only a path that all its matchers match.
C19_WildcardsStayInSegment ==
    (lastCall.op = "MatchPath" /\ lastCall.found)
    => /\ \A n \in 1..Len(lastCall.rule.Regexp) :
             MatchString(lastCall.rule.Regexp[n], lastCall.path)
       /\ \A w \in WildcardPatterns :
             lastCall.text = w.text
             => /\ w.text[1] = "/"
                   => HasPrefix(lastCall.path, PrefixDir(lastCall.prefix))
                /\ AroundWildcard(w, WildcardSegment(w, lastCall.prefix,
                                                     lastCall.path))

\* The rule of /a[!b] under the prefix b, which has two matchers, has
\* matched b/aa
C19_Witness ==
    /\ lastCall.op = "MatchPath"
    /\ lastCall.prefix = <<"b">>
    /\ lastCall.text = <<"/", "a", "[", "!", "b", "]">>
    /\ Len(lastCall.rule.Regexp) = 2
    /\ lastCall.path = <<"b", "/", "a", "a">>
    /\ lastCall.found

\* The pattern has a "[" that is not escaped, and no "]"
IsUnterminated(pattern) ==
    /\ \E n \in 1..Len(pattern) :
          pattern[n] = "[" /\ (n = 1 \/ pattern[n - 1] # "\\")
    /\ \A n \in 1..Len(pattern) : pattern[n] # "]"

\* C20: Compile returns an error and no rule for a pattern with a "["
\* that is not escaped and is never closed.
C20_UnterminatedBracketFails ==
    (lastCall.op = "Compile" /\ IsUnterminated(lastCall.text))
    => (lastCall.result.err /\ lastCall.result.rule = ZeroRule)

\* The patterns with an escaped character, each with the name it stands for
EscapedPatterns ==
    {[text |-> <<"\\", "!", "a">>,            name |-> <<"!", "a">>],
     [text |-> <<"\\", "[", "a", "\\", "]">>, name |-> <<"[", "a", "]">>],
     [text |-> <<"\\", "*">>,                 name |-> <<"*">>],
     [text |-> <<"\\", "?">>,                 name |-> <<"?">>],
     [text |-> <<"\\", "#", "a">>,            name |-> <<"#", "a">>]}

\* C21: the rule of a pattern with an escaped "*", "?", "[", "]", leading
\* "#" or leading "!" is not a negation and matches exactly the paths whose
\* last segment, below the prefix, is the name without the backslash.
C21_EscapedIsLiteral ==
    \A e \in EscapedPatterns :
        (/\ lastCall.op = "MatchPath"
         /\ lastCall.text = e.text
         /\ IsCleanPath(lastCall.path))
        => /\ ~lastCall.rule.Negate
           /\ lastCall.found <=> AtAnyDepth(lastCall.prefix, e.name, lastCall.path)

\* C22: Compile returns skip, with no rule and no error, exactly for the
\* empty line and the lines that begin with "#"; the line \#a is not
\* skipped, and its rule matches exactly the paths whose last segment,
\* below the prefix, is #a.
C22_SkipExactly ==
    /\ lastCall.op = "Compile"
       => /\ lastCall.result.skip
               <=> (lastCall.text = <<>> \/ Head(lastCall.text) = "#")
          /\ lastCall.result.skip
               => (lastCall.result.rule = ZeroRule /\ ~lastCall.result.err)
    /\ (/\ lastCall.op = "MatchPath"
        /\ lastCall.text = <<"\\", "#", "a">>
        /\ IsCleanPath(lastCall.path))
       => (lastCall.found
             <=> AtAnyDepth(lastCall.prefix, <<"#", "a">>, lastCall.path))

\* The rule of \#a has matched the name #a
C22_Witness ==
    /\ lastCall.op = "MatchPath"
    /\ lastCall.text = <<"\\", "#", "a">>
    /\ lastCall.path = <<"#", "a">>
    /\ lastCall.found

\* The line without its trailing spaces
WithoutSpaces(line) ==
    SubSeq(line, 1, CHOOSE k \in 0..Len(line) :
                      /\ \A n \in (k + 1)..Len(line) : line[n] = " "
                      /\ k > 0 => line[k] # " ")

\* Compile returned for both lines the same matchers and flags
SameMatcher(c, d) ==
    /\ c.skip = d.skip
    /\ c.err = d.err
    /\ c.panic = d.panic
    /\ c.rule.Regexp = d.rule.Regexp
    /\ c.rule.Negate = d.rule.Negate
    /\ c.rule.OnlyFolder = d.rule.OnlyFolder

\* C23: a line that ends in spaces, but not in backslash-space, compiles to
\* the matchers and flags of the line without them; the rule of a line y
\* followed by backslash-space matches exactly the paths whose last
\* segment, below the prefix, is y followed by one space.
C23_TrailingSpaces ==
    /\ (/\ lastCall.op = "Compile"
        /\ HasSuffix(lastCall.text, <<" ">>)
        /\ ~HasSuffix(lastCall.text, <<"\\", " ">>)
        /\ WithoutSpaces(lastCall.text) # <<>>)
       => SameMatcher(lastCall.result,
                      Compile(lastCall.prefix, WithoutSpaces(lastCall.text)))
    /\ (/\ lastCall.op = "MatchPath"
        /\ HasSuffix(lastCall.text, <<"\\", " ">>)
        /\ IsCleanPath(lastCall.path))
       => (lastCall.found <=>
             AtAnyDepth(lastCall.prefix,
                        TrimSuffix(lastCall.text, <<"\\", " ">>) \o <<" ">>,
                        lastCall.path))

\* The rule of a, backslash, space has matched the name a followed by a
\* space
C23_Witness ==
    /\ lastCall.op = "MatchPath"
    /\ lastCall.text = <<"a", "\\", " ">>
    /\ lastCall.path = <<"a", " ">>
    /\ lastCall.found

\* Compile has made a rule of the line
IsRule(c) == ~c.skip /\ ~c.err /\ ~c.panic

\* The rule of "!" + x, against the rule c of x: a negation with the
\* matchers and the folder flag of c
NegationOf(c, d) ==
    /\ IsRule(d)
    /\ d.rule.Negate
    /\ d.rule.Regexp = c.rule.Regexp
    /\ d.rule.OnlyFolder = c.rule.OnlyFolder

\* C24 (as amended): for a pattern x that compiles to a rule and begins
\* neither with a backslash nor with "!", the rule of x is not a negation
\* and the rule of "!" + x is a negation with the same matchers and the
\* same folder flag.
C24_NegationIsAFlag ==
    (/\ lastCall.op = "Compile"
     /\ IsRule(lastCall.result)
     /\ Head(lastCall.text) \notin {"\\", "!"})
    => /\ ~lastCall.result.rule.Negate
       /\ NegationOf(lastCall.result,
                     Compile(lastCall.prefix, <<"!">> \o lastCall.text))

\* C24 as stated: the same for every pattern x that compiles to a rule and
\* does not begin with a backslash, the rule of x being no negation when x
\* does not begin with "!".
C24_NegationOfAnyPattern ==
    (/\ lastCall.op = "Compile"
     /\ IsRule(lastCall.result)
     /\ Head(lastCall.text) # "\\")
    => /\ Head(lastCall.text) # "!" => ~lastCall.result.rule.Negate
       /\ NegationOf(lastCall.result,
                     Compile(lastCall.prefix, <<"!">> \o lastCall.text))

\* The folder pattern a/ is compiled for the prefix b, and !a/ compiles to
\* its negation
C24_Witness ==
    /\ lastCall.op = "Compile"
    /\ lastCall.prefix = <<"b">>
    /\ lastCall.text = <<"a", "/">>
    /\ lastCall.result.rule.OnlyFolder
    /\ Compile(<<"b">>, <<"!", "a", "/">>).rule.Negate

\* C25: a rule compiled for a non-empty prefix matches only paths that
\* begin with the prefix followed by "/".
C25_ScopedToDirectory ==
    (/\ lastCall.op = "MatchPath"
     /\ lastCall.prefix # <<>>
     /\ lastCall.found)
    => HasPrefix(lastCall.path, lastCall.prefix \o <<"/">>)

\* C30: Compile and CompileAll return, whatever the line or the data.
C30_NoPanic ==
    lastCall.op \in {"Compile", "CompileAll"} => ~lastCall.result.panic

\* C26: the boolean that MatchBecause and MatchWithoutParents return is
\* what Resolve(isDir) gives for the Result returned with it.
C26_MatchAgreesWithResolve ==
    lastCall.op \in {"MatchBecause", "MatchWithoutParents"}
    => lastCall.match = Resolve(lastCall.because, lastCall.isDir)

\* MatchBecause has returned not ignored with the Result of a negation
C26_Witness ==
    /\ lastCall.op = "MatchBecause"
    /\ lastCall.because.Found
    /\ lastCall.because.Rule.Negate
    /\ ~lastCall.match

\* C27: when MatchBecause returns a Result with ParentMatch, then
\* MatchWithoutParents returns not ignored and the empty Result; otherwise
\* it returns the boolean and the Result of MatchBecause.  ParentMatch
\* holds exactly when no rule was recorded for the full path but one was
\* for a proper ancestor.
C27_ParentsOrNot ==
    lastCall.op = "MatchBecause"
    => LET w == MatchWithoutParents(groups, lastCall.path, lastCall.isDir)
           n == Depth(lastCall.path)
       IN /\ IF lastCall.because.Found /\ lastCall.because.ParentMatch
             THEN ~w.match /\ w.because = ZeroResult
             ELSE w.match = lastCall.match /\ w.because = lastCall.because
          /\ lastCall.because.ParentMatch
               <=> /\ Admitted(groups, lastCall.path, {n}, lastCall.isDir) = {}
                   /\ Admitted(groups, lastCall.path, 1..(n - 1),
                               lastCall.isDir) # {}

\* MatchBecause has returned ignored because of a rule for the directory
\* of the path
C27_Witness ==
    /\ lastCall.op = "MatchBecause"
    /\ lastCall.path = <<"d", "/", "f">>
    /\ lastCall.because.ParentMatch
    /\ lastCall.match

\* The last segment of a path
LastSegment(path) == Segments(path)[Len(Segments(path))]

\* What AddFile leaves of the store gs for the file at path: one more
\* group when every line compiles, the same store otherwise
Loaded(gs, call) ==
    IF CompileAll(ContainingDir(call.path), DataOf(call)).err
    THEN gs
    ELSE Append(gs, [prefix |-> ContainingDir(call.path),
                     rules  |-> CompileAll(ContainingDir(call.path),
                                           DataOf(call)).rules])

\* C28: WalkFN called with an error returns (false, that error) and leaves
\* the store as it was; for a path other than "." that MatchWithoutParents
\* reports ignored it returns (false, SkipDir) for a directory and
\* (false, nil) for a file, and leaves the store as it was; otherwise it
\* returns (true, nil), after loading the file when it is not a directory
\* and its base name is the ignore file name, and (false, the error of the
\* load) when the load fails.
C28_WalkFNOutcome ==
    lastCall.op = "WalkFNCall"
    => IF lastCall.errIn # "nil"
       THEN ~lastCall.ok /\ lastCall.err = lastCall.errIn
            /\ groups = lastCall.before
       ELSE IF /\ lastCall.path # <<".">>
               /\ MatchWithoutParents(lastCall.before, lastCall.path,
                                      lastCall.isDir).match
       THEN /\ ~lastCall.ok
            /\ lastCall.err = (IF lastCall.isDir THEN "SkipDir" ELSE "nil")
            /\ groups = lastCall.before
       ELSE IF ~lastCall.isDir /\ LastSegment(lastCall.path) = lastCall.name
       THEN /\ groups = Loaded(lastCall.before, lastCall)
            /\ IF CompileAll(ContainingDir(lastCall.path), DataOf(lastCall)).err
               THEN ~lastCall.ok /\ lastCall.err = "CompileError"
               ELSE lastCall.ok /\ lastCall.err = "nil"
       ELSE lastCall.ok /\ lastCall.err = "nil" /\ groups = lastCall.before

\* WalkFN has returned the error of a load that failed: d/i of the second
\* tree, whose second line does not compile, with a rule in the store
C28_Witness ==
    /\ lastCall.op = "WalkFNCall"
    /\ lastCall.fs = 2
    /\ lastCall.path = <<"d", "/", "i">>
    /\ lastCall.name = <<"i">>
    /\ lastCall.errIn = "nil"
    /\ ~lastCall.ok
    /\ lastCall.err = "CompileError"
    /\ Len(groups) = 1

\* The paths still to visit in the walk
PendingPaths(w) == {w.pending[n] : n \in 1..Len(w.pending)}

====
